---- MODULE Spec2Model ----
(***************************************************************************)
(* Model of the Turnkey client (src/src/client.rs, bytes.rs, errors.rs,    *)
(* models.rs): the hex codec, request stamping, the remote signing round   *)
(* trip of sign_bytes and the signature injection of sign_transaction.     *)
(*                                                                         *)
(* Text is a sequence of one-character strings, bytes are sequences of     *)
(* 0..255.  A Rust Result is a record with kind "Ok" or "Err"; a panic     *)
(* (an unwinding task) is the record with kind "Panic".                    *)
(***************************************************************************)
EXTENDS Integers, Sequences, FiniteSets, TLC

VARIABLES
    client,       \* the Turnkey struct: credential, organization id, key registry
    pc,           \* pc[c]: where call c of sign_transaction stands
    transaction,  \* transaction[c]: the caller's transaction, passed by &mut
    entry,        \* entry[c]: that transaction as it was when the call began
    frame,        \* frame[c]: the locals of sign_transaction / sign_bytes
    wire,         \* wire[c]: the requests call c has handed to the HTTP client
    inbox,        \* inbox[c]: the answers to call c's requests, in order
    outcome,      \* outcome[c]: what sign_transaction returned to its caller
    stamps,       \* stamps[c]: how many times call c ran stamp()
    hexIn,        \* argument of a direct hex_to_bytes call
    hexOut        \* its result

vars == <<client, pc, transaction, entry, frame, wire, inbox, outcome, stamps, hexIn, hexOut>>

None == [kind |-> "None"]

(***************************************************************************)
(* Bounds of the model.                                                    *)
(***************************************************************************)
\* longest text handed to a direct hex_to_bytes call
MaxHexLen == 3
\* longest account-key list of a transaction
MaxKeys == 2
\* number of sign_transaction calls in flight on one client
NumCalls == 2

(***************************************************************************)
(* Sizes fixed by the libraries the client is built on.                    *)
(***************************************************************************)
\* solana_sdk Signature: Signature::try_from wants exactly 64 bytes
SIGNATURE_BYTES == 64
\* p256 SigningKey::from_bytes wants a 32-byte scalar
SECRET_KEY_BYTES == 32

\* n copies of the sequence s, one after the other
Rep(s, n) == [i \in 1..(Len(s) * n) |-> s[((i - 1) % Len(s)) + 1]]

RECURSIVE SeqsUpTo(_, _)
\* every sequence over S of length at most n
SeqsUpTo(S, n) ==
    IF n = 0 THEN {<<>>}
    ELSE LET shorter == SeqsUpTo(S, n - 1)
         IN  shorter \cup {Append(s, x) : s \in {t \in shorter : Len(t) = n - 1}, x \in S}

(***************************************************************************)
(* bytes.rs                                                                *)
(***************************************************************************)
LowerDigits == <<"0", "1", "2", "3", "4", "5", "6", "7", "8", "9", "a", "b", "c", "d", "e", "f">>
UpperDigits == <<"0", "1", "2", "3", "4", "5", "6", "7", "8", "9", "A", "B", "C", "D", "E", "F">>

\* char::to_digit(16): the value of a hex digit of either case, -1 for any other character
to_digit(ch) ==
    IF \E i \in 1..16 : LowerDigits[i] = ch
    THEN (CHOOSE i \in 1..16 : LowerDigits[i] = ch) - 1
    ELSE IF \E i \in 1..16 : UpperDigits[i] = ch
         THEN (CHOOSE i \in 1..16 : UpperDigits[i] = ch) - 1
         ELSE -1

RECURSIVE RadixValue(_, _)
\* the base-16 value of a run of hex digits, most significant first
RadixValue(digits, acc) ==
    IF digits = <<>> THEN acc
    ELSE RadixValue(Tail(digits), acc * 16 + to_digit(Head(digits)))

\* u8::from_str_radix(src, 16): an unsigned parse; one leading "+" is skipped, a "-"
\* is an invalid digit, and a value above 255 overflows
from_str_radix(src) ==
    IF src = <<>> THEN [kind |-> "Err", error |-> "cannot parse integer from empty string"]
    ELSE IF Len(src) = 1 /\ src[1] \in {"+", "-"}
         THEN [kind |-> "Err", error |-> "invalid digit found in string"]
         ELSE LET digits == IF src[1] = "+" THEN Tail(src) ELSE src
              IN  IF \E i \in 1..Len(digits) : to_digit(digits[i]) = -1
                  THEN [kind |-> "Err", error |-> "invalid digit found in string"]
                  ELSE IF RadixValue(digits, 0) > 255
                       THEN [kind |-> "Err", error |-> "number too large to fit in target type"]
                       ELSE [kind |-> "Ok", value |-> RadixValue(digits, 0)]

\* The iterator (0..hex.len()).step_by(2) yields one offset per two characters,
\* rounded up; chunk k is &hex[i..i + 2] parsed, and slicing past the end of the
\* text panics.  collect::<Result<Vec<_>, _>>() takes the chunks in order and
\* stops at the first that does not parse, so the first bad chunk decides.
hex_to_bytes(hex) ==
    LET n == (Len(hex) + 1) \div 2
        chunk(k) == IF 2 * k > Len(hex) THEN [kind |-> "Panic"]
                    ELSE from_str_radix(SubSeq(hex, 2 * k - 1, 2 * k))
        bad == {k \in 1..n : chunk(k).kind # "Ok"}
    IN  IF bad = {} THEN [kind |-> "Ok", value |-> [k \in 1..n |-> chunk(k).value]]
        ELSE chunk(CHOOSE k \in bad : \A j \in bad : k <= j)

\* two lowercase hex digits per byte
bytes_to_hex(bytes) ==
    [ i \in 1..(2 * Len(bytes)) |->
        IF i % 2 = 1 THEN LowerDigits[(bytes[(i + 1) \div 2] \div 16) + 1]
                     ELSE LowerDigits[(bytes[i \div 2] % 16) + 1] ]

(***************************************************************************)
(* A direct call of hex_to_bytes on an arbitrary short text.               *)
(***************************************************************************)
HexAlphabet == {"0", "a", "F", "+", "-", "g"}

InitHex ==
    /\ hexIn \in SeqsUpTo(HexAlphabet, MaxHexLen)
    /\ hexOut = None
    /\ client = None
    /\ pc = <<>>
    /\ transaction = <<>>
    /\ entry = <<>>
    /\ frame = <<>>
    /\ wire = <<>>
    /\ inbox = <<>>
    /\ outcome = <<>>
    /\ stamps = <<>>

HexDecode ==
    /\ hexOut = None
    /\ hexOut' = hex_to_bytes(hexIn)
    /\ UNCHANGED <<client, pc, transaction, entry, frame, wire, inbox, outcome, stamps, hexIn>>

NextHex == HexDecode

SpecHex == InitHex /\ [][NextHex]_vars

\* the text is made of hex digit pairs: even length, every character a hex digit
IsHexText(text) ==
    /\ Len(text) % 2 = 0
    /\ \A i \in 1..Len(text) : to_digit(text[i]) # -1

\* C7: hex_to_bytes returns an error value (EncodingError; no panic, no bytes) for
\* every odd-length text and every text with a non-hex character, and returns bytes
\* only for even-length texts of hex digit pairs.
C7_RejectsNonHex ==
    hexOut # None =>
        /\ ~IsHexText(hexIn) => hexOut.kind = "Err"
        /\ hexOut.kind = "Ok" => IsHexText(hexIn)

(***************************************************************************)
(* errors.rs: TurnkeyError has three variants, MethodError, HttpError and  *)
(* OtherError(String).  The failures the documentation names are told      *)
(* apart by variant and message.                                           *)
(***************************************************************************)
\* Every error value carries the three payloads, the two its variant does not
\* use being empty, so that any two errors can be compared.
NoResponseError == [code |-> 0, message |-> "", details |-> <<>>]
MethodError(e) == [variant |-> "MethodError", method |-> e, http |-> "", other |-> <<>>]
HttpError(e) == [variant |-> "HttpError", method |-> NoResponseError, http |-> e, other |-> <<>>]
OtherError(msg) == [variant |-> "OtherError", method |-> NoResponseError, http |-> "", other |-> msg]

\* impl From<Box<dyn Error>>: the failure of hex_to_bytes (EncodingError)
FromBoxedError(e) == OtherError(<<e>>)
\* impl From<EcdsaError>: the failure of SigningKey::from_bytes (CryptoError)
FromEcdsaError(e) == OtherError(<<"ECDSA error: ", e>>)
\* impl From<TryFromSliceError>: the failure of Signature::try_from (SignatureFormatError)
FromTryFromSliceError(e) == OtherError(<<"Signature conversion error: ", e>>)
\* sign_bytes' last statement (MissingResultError)
MissingResultError == OtherError(<<"Missing SIGN_RAW_PAYLOAD result">>)
\* sign_transaction's last match arm (UnknownSignerError)
UnknownSignerError == OtherError(<<"Unknown signer or index out of bounds">>)

Ok(v) == [kind |-> "Ok", value |-> v]
Err(e) == [kind |-> "Err", error |-> e]
Panic == [kind |-> "Panic"]

(***************************************************************************)
(* The client and the values it works on.                                  *)
(***************************************************************************)
Pubkeys == {"A", "B", "C"}

\* the 32-byte encoding of a public key inside a serialized message, cut to one byte
PubkeyByte(key) == CASE key = "A" -> 10 [] key = "B" -> 11 [] key = "C" -> 12

\* values TURNKEY_API_PRIVATE_KEY can hold: Turnkey::new stores it unchecked.
\* A 32-byte scalar, a text with a non-hex character, an odd-length text, the
\* zero scalar and a scalar of the wrong length.
ApiPrivateKeys ==
    { Rep(<<"0", "1">>, SECRET_KEY_BYTES),
      <<"z", "z">>,
      <<"0", "1", "2">>,
      Rep(<<"0", "0">>, SECRET_KEY_BYTES),
      <<"0", "1">> }

\* Turnkey::new: every field comes from the environment
Clients ==
    { [ api_public_key   |-> "02api",
        api_private_key  |-> k,
        organization_id  |-> "org-1",
        example_key_info |-> [private_key_id |-> "pk-example", public_key |-> "B"] ]
      : k \in ApiPrivateKeys }

\* fn select_key: the registry is a closed enum with one variant
select_key(turnkey, selector) ==
    CASE selector = "ExampleKey" -> turnkey.example_key_info

DefaultSignature == Rep(<<0>>, SIGNATURE_BYTES)
\* what another signer put into slot i earlier
PriorSignature(i) == Rep(<<i>>, SIGNATURE_BYTES)

\* Transaction: the account keys of its message and the parallel signature slots.
\* There are never more slots than account keys (num_required_signatures).
TransactionsOver(keyLists, blockhashes) ==
    { [ account_keys     |-> keys,
        recent_blockhash |-> h,
        signatures       |-> IF prior THEN [i \in 1..n |-> PriorSignature(i)]
                                      ELSE [i \in 1..n |-> DefaultSignature] ]
      : keys \in keyLists, h \in blockhashes, prior \in BOOLEAN, n \in 0..MaxKeys }

Transactions ==
    { t \in TransactionsOver(SeqsUpTo(Pubkeys, MaxKeys), {1}) :
        Len(t.signatures) <= Len(t.account_keys) }

\* Transaction::message_data: the serialized message (key count, keys, blockhash)
message_data(tx) ==
    <<Len(tx.account_keys)>>
    \o [i \in 1..Len(tx.account_keys) |-> PubkeyByte(tx.account_keys[i])]
    \o <<tx.recent_blockhash>>

\* values of chrono::Utc::now().timestamp_millis().to_string()
Timestamps == {"1700000000000", "1700000000001"}

(***************************************************************************)
(* fn stamp                                                                *)
(***************************************************************************)
\* SigningKey::from_bytes: a scalar of the right length that is not zero
SigningKey_from_bytes(bytes) ==
    IF Len(bytes) = SECRET_KEY_BYTES /\ \E i \in 1..Len(bytes) : bytes[i] # 0
    THEN Ok([secret |-> bytes])
    ELSE Err("signature error")

\* signing_key.sign(message), DER-encoded and hex-encoded: a signature is good for
\* the key and the exact message it was made over, and for nothing else
sign(signing_key, message) == [der_hex_of |-> [by |-> signing_key.secret, over |-> message]]

\* serde_json::to_string and base64_url::encode are one-to-one
to_string(value) == [json |-> value]
base64_url_encode(text) == [base64url |-> text]

stamp(turnkey, message) ==
    LET private_api_key_bytes == hex_to_bytes(turnkey.api_private_key)
    IN  IF private_api_key_bytes.kind = "Panic" THEN Panic
        ELSE IF private_api_key_bytes.kind = "Err"
        THEN Err(FromBoxedError(private_api_key_bytes.error))
        ELSE LET signing_key == SigningKey_from_bytes(private_api_key_bytes.value)
             IN  IF signing_key.kind = "Err" THEN Err(FromEcdsaError(signing_key.error))
                 ELSE Ok(base64_url_encode(to_string(
                        [ publicKey |-> turnkey.api_public_key,
                          signature |-> sign(signing_key.value, message),
                          scheme    |-> "SIGNATURE_SCHEME_TK_API_P256" ])))

(***************************************************************************)
(* fn sign_bytes, up to the request                                        *)
(***************************************************************************)
\* the SignRawPayloadRequest of sign_bytes, serialized
RequestBody(turnkey, bytes, private_key_id, now) ==
    to_string(
        [ type           |-> "ACTIVITY_TYPE_SIGN_RAW_PAYLOAD_V2",
          timestampMs    |-> now,
          organizationId |-> turnkey.organization_id,
          parameters     |-> [ signWith     |-> private_key_id,
                               payload      |-> bytes_to_hex(bytes),
                               encoding     |-> "PAYLOAD_ENCODING_HEXADECIMAL",
                               hashFunction |-> "HASH_FUNCTION_NOT_APPLICABLE" ] ])

\* the POST with a body serialized again at send time, with the time of sending
PostRequest_FreshBody(body, x_stamp) ==
    [ url     |-> "https://api.turnkey.com/public/v1/submit/sign_raw_payload",
      headers |-> [ContentType |-> "application/json", XStamp |-> x_stamp],
      body    |-> to_string([body.json EXCEPT !.timestampMs = "1700000000002"]) ]

\* the POST that sign_bytes builds from the body and the stamp made over it
PostRequest(body, x_stamp) ==
    [ url     |-> "https://api.turnkey.com/public/v1/submit/sign_raw_payload",
      headers |-> [ContentType |-> "application/json", XStamp |-> x_stamp],
      body    |-> body ]

(***************************************************************************)
(* What the HTTP client hands back, and models.rs / errors.rs.             *)
(***************************************************************************)
NoSignRawPayloadResult == [present |-> FALSE, r |-> <<>>, s |-> <<>>]
SignRawPayloadResult(r, s) == [present |-> TRUE, r |-> r, s |-> s]

\* Option<ActivityResult>
NoActivityResult == [present |-> FALSE, sign_raw_payload_result |-> NoSignRawPayloadResult]
ActivityResult(srp) == [present |-> TRUE, sign_raw_payload_result |-> srp]

Activity(status, result) ==
    [ id              |-> "activity-1",
      organization_id |-> "org-1",
      status          |-> status,
      result          |-> result,
      activity_type   |-> "ACTIVITY_TYPE_SIGN_RAW_PAYLOAD_V2" ]

NoActivity == Activity("", NoActivityResult)

\* a response body: JSON shaped like ActivityResponse, like TurnkeyResponseError,
\* or like neither
ActivityBody(activity) == [shape |-> "activity", activity |-> activity, error |-> NoResponseError]
ErrorBody(e) == [shape |-> "error", activity |-> NoActivity, error |-> e]
GarbageBody == [shape |-> "garbage", activity |-> NoActivity, error |-> NoResponseError]

\* Result<reqwest::Response, reqwest::Error>
Delivered(status, body) == [transport |-> "Ok", status |-> status, body |-> body, failure |-> ""]
TransportFailure(e) == [transport |-> "Err", status |-> 0, body |-> GarbageBody, failure |-> e]

\* StatusCode::is_success
is_success(status) == 200 <= status /\ status <= 299

\* Response::json::<ActivityResponse>
json_ActivityResponse(body) ==
    IF body.shape = "activity" THEN Ok([activity |-> body.activity]) ELSE Err("error decoding response body")

\* Response::json::<TurnkeyResponseError>
json_TurnkeyResponseError(body) ==
    IF body.shape = "error" THEN Ok(body.error) ELSE Err("error decoding response body")

\* process_response keeping the code and the message of a remote error but not
\* its details
process_response_DropDetails(response) ==
    IF response.transport = "Ok"
    THEN IF is_success(response.status)
         THEN LET decoded == json_ActivityResponse(response.body)
              IN  IF decoded.kind = "Ok" THEN decoded ELSE Err(HttpError(decoded.error))
         ELSE LET error_res == json_TurnkeyResponseError(response.body)
              IN  IF error_res.kind = "Ok"
                  THEN Err(MethodError([error_res.value EXCEPT !.details = <<>>]))
                  ELSE Err(HttpError(error_res.error))
    ELSE Err(HttpError(response.failure))

\* fn process_response::<ActivityResponse>
process_response(response) ==
    IF response.transport = "Ok"
    THEN IF is_success(response.status)
         THEN LET decoded == json_ActivityResponse(response.body)
              IN  IF decoded.kind = "Ok" THEN decoded ELSE Err(HttpError(decoded.error))
         ELSE LET error_res == json_TurnkeyResponseError(response.body)
              IN  IF error_res.kind = "Ok" THEN Err(MethodError(error_res.value))
                  ELSE Err(HttpError(error_res.error))
    ELSE Err(HttpError(response.failure))

\* sign_bytes falling back to a default, all-zero signature when the activity
\* carries no signing result
ExtractSignature_DefaultOnMissing(response_body) ==
    LET result == response_body.activity.result
    IN  IF result.present /\ result.sign_raw_payload_result.present
        THEN LET concatenated_hex ==
                     result.sign_raw_payload_result.r \o result.sign_raw_payload_result.s
                 signature_bytes == hex_to_bytes(concatenated_hex)
             IN  IF signature_bytes.kind = "Panic" THEN Panic
                 ELSE IF signature_bytes.kind = "Err"
                      THEN Err(FromBoxedError(signature_bytes.error))
                      ELSE Ok(signature_bytes.value)
        ELSE Ok(Rep(<<0>>, SIGNATURE_BYTES))

\* sign_bytes from "if let Some(result)" to its end
ExtractSignature(response_body) ==
    LET result == response_body.activity.result
    IN  IF result.present /\ result.sign_raw_payload_result.present
        THEN LET concatenated_hex ==
                     result.sign_raw_payload_result.r \o result.sign_raw_payload_result.s
                 signature_bytes == hex_to_bytes(concatenated_hex)
             IN  IF signature_bytes.kind = "Panic" THEN Panic
                 ELSE IF signature_bytes.kind = "Err"
                      THEN Err(FromBoxedError(signature_bytes.error))
                      ELSE Ok(signature_bytes.value)
        ELSE Err(MissingResultError)

\* sign_bytes from the return of send().await to its end
SignBytesResult(response) ==
    LET response_body == process_response(response)
    IN  IF response_body.kind = "Ok" THEN ExtractSignature(response_body.value)
        ELSE response_body

(***************************************************************************)
(* fn sign_transaction, after sign_bytes                                   *)
(***************************************************************************)
\* Signature::try_from(&[u8])
Signature_try_from(bytes) ==
    IF Len(bytes) = SIGNATURE_BYTES THEN Ok(bytes) ELSE Err("could not convert slice to array")

\* position as a search from the back would do it: the last matching index
position_last(keys, key) ==
    LET hits == {i \in 1..Len(keys) : keys[i] = key}
    IN  IF hits = {} THEN None
        ELSE [kind |-> "Some", value |-> CHOOSE i \in hits : \A j \in hits : j <= i]

\* Iterator::position: the first index whose key equals the one sought (indices
\* here start at 1, Rust's at 0)
position(keys, key) ==
    LET hits == {i \in 1..Len(keys) : keys[i] = key}
    IN  IF hits = {} THEN None
        ELSE [kind |-> "Some", value |-> CHOOSE i \in hits : \A j \in hits : i <= j]

\* the match with a fall-through arm that hands back the transaction as it is:
\* an unknown signer becomes a silent no-op
InjectSignature_SilentNoOp(tx, public_key, signature) ==
    LET index == position(tx.account_keys, public_key)
    IN  IF index.kind = "Some" /\ index.value <= Len(tx.signatures)
        THEN LET signed == [tx EXCEPT !.signatures[index.value] = signature]
             IN  [ transaction |-> signed,
                   result      |-> Ok([transaction |-> signed, signature |-> signature]) ]
        ELSE [ transaction |-> tx,
               result      |-> Ok([transaction |-> tx, signature |-> signature]) ]

\* the match on the index: the guard "i < signatures.len()" reads "i <= Len" with
\* indices from 1
InjectSignature(tx, public_key, signature) ==
    LET index == position(tx.account_keys, public_key)
    IN  IF index.kind = "Some" /\ index.value <= Len(tx.signatures)
        THEN LET signed == [tx EXCEPT !.signatures[index.value] = signature]
             IN  [ transaction |-> signed,
                   result      |-> Ok([transaction |-> signed, signature |-> signature]) ]
        ELSE [transaction |-> tx, result |-> Err(UnknownSignerError)]

\* the slot written with the raw bytes before they are checked to be a signature
FinishSignTransaction_WriteFirst(tx, key_info, signature_bytes) ==
    LET written == InjectSignature(tx, key_info.public_key, signature_bytes)
        signature == Signature_try_from(signature_bytes)
    IN  IF signature.kind = "Err"
        THEN [ transaction |-> written.transaction,
               result      |-> Err(FromTryFromSliceError(signature.error)) ]
        ELSE written

\* sign_transaction from the return of sign_bytes to its end
FinishSignTransaction(tx, key_info, signature_bytes) ==
    LET signature == Signature_try_from(signature_bytes)
    IN  IF signature.kind = "Err"
        THEN [transaction |-> tx, result |-> Err(FromTryFromSliceError(signature.error))]
        ELSE InjectSignature(tx, key_info.public_key, signature.value)

(***************************************************************************)
(* The remote service, seen from the client.                               *)
(***************************************************************************)
\* the two scalars an honest service returns for a request: they depend on the
\* payload it was asked to sign (here on its last byte, the blockhash)
RemoteScalars(request) ==
    LET payload == request.body.json.parameters.payload
    IN  <<Rep(SubSeq(payload, Len(payload) - 1, Len(payload)), SIGNATURE_BYTES \div 2),
          Rep(<<"5", "e">>, SIGNATURE_BYTES \div 2)>>

Scalar32a == Rep(<<"a", "a">>, SIGNATURE_BYTES \div 2)
Scalar32b == Rep(<<"b", "b">>, SIGNATURE_BYTES \div 2)
\* one hex digit short of, and one hex digit over, a 32-byte scalar
Digits63 == Rep(<<"a", "a">>, (SIGNATURE_BYTES \div 2) - 1) \o <<"a">>
Digits65 == <<"b">> \o Rep(<<"b", "b">>, SIGNATURE_BYTES \div 2)

\* the <<r, s>> a simulated service answers with: two 32-byte scalars (twice),
\* scalars that are too short, texts with a non-hex character or a sign, and
\* texts of odd length
SimulatedScalars ==
    { <<Scalar32a, Scalar32b>>,
      <<Scalar32b, Scalar32a>>,
      <<<<"c", "c">>, <<"d", "d">>>>,
      <<<<>>, <<>>>>,
      <<Scalar32a, <<"z", "z">>>>,
      <<<<"+", "f">>, <<"c", "c">>>>,
      <<Scalar32a, <<"b">>>>,
      <<<<"a">>, Scalar32b>>,
      <<<<"a">>, <<"b">>>>,
      <<Digits63, Digits65>> }

InvalidArgument ==
    [ code    |-> 3,
      message |-> "invalid argument",
      details |-> << [ type_field       |-> "type.googleapis.com/google.rpc.BadRequest",
                       field_violations |-> << [ field       |-> "parameters.signWith",
                                                 description |-> "unknown private key" ] >> ] >> ]

Unauthenticated == [code |-> 16, message |-> "unauthenticated", details |-> <<>>]

\* the success body of an honest service
HonestBody(request) ==
    ActivityBody(Activity("ACTIVITY_STATUS_COMPLETED",
                          ActivityResult(SignRawPayloadResult(RemoteScalars(request)[1],
                                                              RemoteScalars(request)[2]))))

\* an honest service and a network that can fail: the signature, a remote error,
\* an activity without a result, no answer at all
HonestResponses(request) ==
    { Delivered(200, HonestBody(request)),
      Delivered(400, ErrorBody(InvalidArgument)),
      Delivered(200, ActivityBody(Activity("ACTIVITY_STATUS_PENDING", NoActivityResult))),
      TransportFailure("error sending request") }

\* everything send().await can return for a request
AllResponses(request) ==
    LET signed == { ActivityBody(Activity("ACTIVITY_STATUS_COMPLETED",
                                          ActivityResult(SignRawPayloadResult(p[1], p[2]))))
                    : p \in SimulatedScalars }
        unsigned == { ActivityBody(Activity("ACTIVITY_STATUS_COMPLETED",
                                            ActivityResult(NoSignRawPayloadResult))) }
    IN  HonestResponses(request)
        \cup {Delivered(200, b) : b \in signed \cup unsigned \cup {GarbageBody, ErrorBody(Unauthenticated)}}
        \cup {Delivered(st, b) : st \in {401, 500},
                                 b \in {ErrorBody(Unauthenticated), GarbageBody, HonestBody(request)}}

Responses(request, simulated) ==
    IF simulated THEN AllResponses(request) ELSE HonestResponses(request)

(***************************************************************************)
(* The calls.  Call c of sign_transaction runs                             *)
(*   idle -> stamp -> send -> await -> inject -> done                      *)
(* and leaves early, with its result, where the code returns early.        *)
(***************************************************************************)
NoTransaction == [account_keys |-> <<>>, recent_blockhash |-> 0, signatures |-> <<>>]

NoFrame ==
    [ key_info           |-> [private_key_id |-> "", public_key |-> ""],
      serialized_message |-> <<>>,
      body               |-> to_string(None),
      x_stamp            |-> None,
      response           |-> None,
      signature_bytes    |-> None ]

InitCalls(n) ==
    /\ client \in Clients
    /\ pc = [c \in 1..n |-> "idle"]
    /\ transaction = [c \in 1..n |-> NoTransaction]
    /\ entry = [c \in 1..n |-> NoTransaction]
    /\ frame = [c \in 1..n |-> NoFrame]
    /\ wire = [c \in 1..n |-> <<>>]
    /\ inbox = [c \in 1..n |-> <<>>]
    /\ outcome = [c \in 1..n |-> None]
    /\ stamps = [c \in 1..n |-> 0]
    /\ hexIn = <<>>
    /\ hexOut = None

\* sign_transaction looking the signer up among the account keys first, and
\* going to the service only for a signer that has a slot
BeforeSignBytes_CheckSigner(tx, key_info) ==
    LET index == position(tx.account_keys, key_info.public_key)
    IN  IF index.kind = "Some" /\ index.value <= Len(tx.signatures)
        THEN Ok(message_data(tx))
        ELSE Err(UnknownSignerError)

\* what sign_transaction does with the transaction before it calls sign_bytes:
\* it serializes the message, and nothing there can fail or return
BeforeSignBytes(tx, key_info) == Ok(message_data(tx))

\* sign_transaction up to the call of stamp: select the key, serialize the
\* message, build the request body with the time of the call
Call(c, txs, times) ==
    /\ pc[c] = "idle"
    /\ \E tx \in txs, now \in times :
         LET key_info == select_key(client, "ExampleKey")
             serialized_message == BeforeSignBytes(tx, key_info)
         IN  /\ transaction' = [transaction EXCEPT ![c] = tx]
             /\ entry' = [entry EXCEPT ![c] = tx]
             /\ IF serialized_message.kind = "Ok"
                THEN /\ frame' = [frame EXCEPT ![c] =
                           [ NoFrame EXCEPT
                               !.key_info = key_info,
                               !.serialized_message = serialized_message.value,
                               !.body = RequestBody(client, serialized_message.value,
                                                    key_info.private_key_id, now) ]]
                     /\ pc' = [pc EXCEPT ![c] = "stamp"]
                     /\ UNCHANGED outcome
                ELSE /\ frame' = [frame EXCEPT ![c] = [NoFrame EXCEPT !.key_info = key_info]]
                     /\ pc' = [pc EXCEPT ![c] = "done"]
                     /\ outcome' = [outcome EXCEPT ![c] = serialized_message]
    /\ UNCHANGED <<client, wire, inbox, stamps, hexIn, hexOut>>

\* let x_stamp = self.stamp(&body)?
Stamp(c) ==
    /\ pc[c] = "stamp"
    /\ LET x_stamp == stamp(client, frame[c].body)
       IN  /\ stamps' = [stamps EXCEPT ![c] = @ + 1]
           /\ IF x_stamp.kind = "Ok"
              THEN /\ frame' = [frame EXCEPT ![c].x_stamp = x_stamp]
                   /\ pc' = [pc EXCEPT ![c] = "send"]
                   /\ UNCHANGED outcome
              ELSE /\ outcome' = [outcome EXCEPT ![c] = x_stamp]
                   /\ pc' = [pc EXCEPT ![c] = "done"]
                   /\ UNCHANGED frame
    /\ UNCHANGED <<client, transaction, entry, wire, inbox, hexIn, hexOut>>

\* self.client.post(..).header(..).header("X-Stamp", &x_stamp).body(body).send()
Send(c) ==
    /\ pc[c] = "send"
    /\ wire' = [wire EXCEPT ![c] = Append(@, PostRequest(frame[c].body, frame[c].x_stamp.value))]
    /\ pc' = [pc EXCEPT ![c] = "await"]
    /\ UNCHANGED <<client, transaction, entry, frame, inbox, outcome, stamps, hexIn, hexOut>>

\* the service, or the network, answers the request call c is waiting on
Respond(c, simulated) ==
    /\ pc[c] = "await"
    /\ Len(inbox[c]) < Len(wire[c])
    /\ \E response \in Responses(wire[c][Len(wire[c])], simulated) :
         inbox' = [inbox EXCEPT ![c] = Append(@, response)]
    /\ UNCHANGED <<client, pc, transaction, entry, frame, wire, outcome, stamps, hexIn, hexOut>>

\* one response slot for the whole client: a call reads the latest answer to
\* any call
AwaitedResponse_Shared(c) ==
    LET d == CHOOSE d \in DOMAIN pc :
                 /\ Len(inbox[d]) > 0
                 /\ \A e \in DOMAIN pc : Len(inbox[e]) > 0 => d <= e
    IN  inbox[d][Len(inbox[d])]

\* the value send().await resolves to in call c: the answer to its own request
AwaitedResponse(c) == inbox[c][Len(inbox[c])]

\* sign_bytes sending the request again after a transport failure
AfterSignBytes_Retry(signature_bytes) ==
    IF signature_bytes.kind = "Ok" THEN "inject"
    ELSE IF signature_bytes.kind = "Err" /\ signature_bytes.error.variant = "HttpError"
         THEN "send"
         ELSE "done"

\* where sign_transaction goes when sign_bytes has returned: on with the
\* signature bytes, or out with the error (the "?" after .await)
AfterSignBytes(signature_bytes) ==
    IF signature_bytes.kind = "Ok" THEN "inject" ELSE "done"

\* sign_bytes after the .await, and the "?" on its result in sign_transaction
Receive(c) ==
    /\ pc[c] = "await"
    /\ Len(inbox[c]) = Len(wire[c])
    /\ LET response == AwaitedResponse(c)
           signature_bytes == SignBytesResult(response)
       IN  /\ frame' = [frame EXCEPT ![c].response = response,
                                     ![c].signature_bytes = signature_bytes]
           /\ pc' = [pc EXCEPT ![c] = AfterSignBytes(signature_bytes)]
           /\ outcome' = [outcome EXCEPT ![c] =
                            IF signature_bytes.kind = "Ok" THEN @ ELSE signature_bytes]
    /\ UNCHANGED <<client, transaction, entry, wire, inbox, stamps, hexIn, hexOut>>

\* Signature::try_from, the search for the signer's slot and the write
Inject(c) ==
    /\ pc[c] = "inject"
    /\ LET done == FinishSignTransaction(transaction[c], frame[c].key_info,
                                         frame[c].signature_bytes.value)
       IN  /\ transaction' = [transaction EXCEPT ![c] = done.transaction]
           /\ outcome' = [outcome EXCEPT ![c] = done.result]
    /\ pc' = [pc EXCEPT ![c] = "done"]
    /\ UNCHANGED <<client, entry, frame, wire, inbox, stamps, hexIn, hexOut>>

(***************************************************************************)
(* One call at a time, on every transaction and against every answer.      *)
(***************************************************************************)
Init == InitCalls(1)

Next ==
    \/ \E c \in DOMAIN pc : Call(c, Transactions, Timestamps)
    \/ \E c \in DOMAIN pc : Stamp(c)
    \/ \E c \in DOMAIN pc : Send(c)
    \/ \E c \in DOMAIN pc : Respond(c, TRUE)
    \/ \E c \in DOMAIN pc : Receive(c)
    \/ \E c \in DOMAIN pc : Inject(c)

Spec == Init /\ [][Next]_vars

(***************************************************************************)
(* Several calls in flight on one client, each on its own transaction,     *)
(* against a service that signs what it is asked to sign or fails.         *)
(***************************************************************************)
ConcTransactions ==
    { [ account_keys |-> <<"A", "B">>, recent_blockhash |-> 1,
        signatures |-> <<PriorSignature(1), DefaultSignature>> ],
      [ account_keys |-> <<"B">>, recent_blockhash |-> 2,
        signatures |-> <<DefaultSignature>> ],
      [ account_keys |-> <<"A", "C">>, recent_blockhash |-> 3,
        signatures |-> <<DefaultSignature>> ] }

InitConc == InitCalls(NumCalls)

NextConc ==
    \/ \E c \in DOMAIN pc : Call(c, ConcTransactions, {"1700000000000"})
    \/ \E c \in DOMAIN pc : Stamp(c)
    \/ \E c \in DOMAIN pc : Send(c)
    \/ \E c \in DOMAIN pc : Respond(c, FALSE)
    \/ \E c \in DOMAIN pc : Receive(c)
    \/ \E c \in DOMAIN pc : Inject(c)

SpecConc == InitConc /\ [][NextConc]_vars

(***************************************************************************)
(* Properties of sign_transaction.                                         *)
(***************************************************************************)
Calls == DOMAIN pc

Done(c) == pc[c] = "done"

Succeeded(c) == Done(c) /\ outcome[c].kind = "Ok"

\* the public key of the identity every call selects
SignerKey == client.example_key_info.public_key

\* the indices at which the signer's key stands first in a key list: one index
\* when the key is in the list, none when it is not
FirstIndexOf(keys, key) ==
    {i \in 1..Len(keys) : keys[i] = key /\ \A j \in 1..(i - 1) : keys[j] # key}

\* the signer has a slot in the transaction: its key is an account key and the
\* slot of its first position exists
HasSlot(tx) == \E i \in FirstIndexOf(tx.account_keys, SignerKey) : i <= Len(tx.signatures)

\* C1: when sign_transaction succeeds, the signature is in the slot of the first
\* position of the signer's key among the account keys, every other slot, the
\* account keys and the lengths of both lists are as they were, and the returned
\* transaction is the updated one, with the returned signature in that slot.
C1_SignatureInSignersSlot ==
    \A c \in Calls :
        Succeeded(c) =>
            LET before == entry[c]
                after == transaction[c]
                returned == outcome[c].value
            IN  /\ HasSlot(before)
                /\ \A i \in FirstIndexOf(before.account_keys, SignerKey) :
                     /\ after.signatures[i] = returned.signature
                     /\ returned.transaction.signatures[i] = returned.signature
                     /\ \A j \in 1..Len(before.signatures) :
                          j # i => after.signatures[j] = before.signatures[j]
                /\ after.account_keys = before.account_keys
                /\ Len(after.signatures) = Len(before.signatures)
                /\ after.recent_blockhash = before.recent_blockhash
                /\ returned.transaction = after

\* a call has succeeded on a transaction that holds the signer's key twice, with
\* a slot for each position
C1_Witness ==
    \E c \in Calls :
        /\ Succeeded(c)
        /\ entry[c].account_keys = <<SignerKey, SignerKey>>
        /\ Len(entry[c].signatures) = 2
        /\ transaction[c].signatures[2] = PriorSignature(2)
        /\ transaction[c].signatures[1] # entry[c].signatures[1]

\* C2 as stated: whenever the signer has no slot, the call fails with
\* UnknownSignerError and the signature list is as it was.
C2_AlwaysUnknownSigner ==
    \A c \in Calls :
        (Done(c) /\ ~HasSlot(entry[c])) =>
            /\ outcome[c].kind = "Err"
            /\ outcome[c].error = UnknownSignerError
            /\ transaction[c].signatures = entry[c].signatures

\* sign_bytes gave call c bytes that make a signature
GotSignature(c) ==
    /\ frame[c].signature_bytes.kind = "Ok"
    /\ Len(frame[c].signature_bytes.value) = SIGNATURE_BYTES

\* C2, amended: when the signer has no slot, sign_transaction never succeeds and
\* leaves the transaction as it was; the failure is UnknownSignerError whenever
\* the remote signing step has returned 64 signature bytes, and the failure of
\* that earlier step otherwise.
C2_UnknownSignerFails ==
    \A c \in Calls :
        (Done(c) /\ ~HasSlot(entry[c])) =>
            /\ outcome[c].kind \in {"Err", "Panic"}
            /\ transaction[c] = entry[c]
            /\ GotSignature(c) => (outcome[c].kind = "Err" /\ outcome[c].error = UnknownSignerError)
            /\ (outcome[c].kind = "Err" /\ outcome[c].error = UnknownSignerError) => GotSignature(c)

\* a call has failed with UnknownSignerError on a transaction whose account keys
\* hold the signer's key at a position that has no slot
C2_Witness ==
    \E c \in Calls :
        /\ Done(c)
        /\ outcome[c].kind = "Err"
        /\ outcome[c].error = UnknownSignerError
        /\ FirstIndexOf(entry[c].account_keys, SignerKey) = {2}
        /\ Len(entry[c].signatures) = 1

\* C3: the transaction of a call that has not returned success is the
\* transaction the call was given, at every step and for every failure; a slot
\* differs only after the success path.
C3_AllOrNothing ==
    \A c \in Calls :
        /\ outcome[c].kind # "Ok" => transaction[c] = entry[c]
        /\ transaction[c] # entry[c] => Succeeded(c)

\* a call has failed on signature bytes of the wrong length although the signer
\* has a slot
C3_Witness ==
    \E c \in Calls :
        /\ Done(c)
        /\ outcome[c].kind = "Err"
        /\ outcome[c].error = FromTryFromSliceError("could not convert slice to array")
        /\ HasSlot(entry[c])
        /\ Len(frame[c].signature_bytes.value) = 2

(***************************************************************************)
(* Properties of sign_bytes.                                               *)
(***************************************************************************)
\* call c has taken the answer to its request and run sign_bytes to its end
Answered(c) == frame[c].signature_bytes.kind # "None"

\* the answer carries a success status and a well-formed activity
IsActivityAnswer(response) ==
    /\ response.transport = "Ok"
    /\ is_success(response.status)
    /\ response.body.shape = "activity"

\* the signing sub-result of an activity answer is there
HasSigningResult(response) ==
    /\ response.body.activity.result.present
    /\ response.body.activity.result.sign_raw_payload_result.present

\* C4: a success answer whose activity has no result, or a result without a
\* signRawPayloadResult, makes sign_bytes fail with MissingResultError: no
\* signature bytes come back, sign_transaction returns that error and writes no
\* slot.
C4_MissingResult ==
    \A c \in Calls :
        (Answered(c) /\ IsActivityAnswer(frame[c].response) /\ ~HasSigningResult(frame[c].response)) =>
            /\ frame[c].signature_bytes.kind = "Err"
            /\ frame[c].signature_bytes.error = MissingResultError
            /\ Done(c)
            /\ outcome[c].kind = "Err"
            /\ outcome[c].error = MissingResultError
            /\ transaction[c] = entry[c]

\* a call has ended on a success answer whose activity has no result, for a
\* transaction in which the signer has a slot
C4_Witness ==
    \E c \in Calls :
        /\ Done(c)
        /\ Answered(c)
        /\ IsActivityAnswer(frame[c].response)
        /\ ~frame[c].response.body.activity.result.present
        /\ HasSlot(entry[c])
        /\ outcome[c].kind = "Err"

\* the answer carries a non-success status and a structured error body
IsRemoteError(response) ==
    /\ response.transport = "Ok"
    /\ ~is_success(response.status)
    /\ response.body.shape = "error"

\* C5: a non-success answer with a structured error body comes out of
\* process_response, sign_bytes and sign_transaction as MethodError
\* (RemoteMethodError) with the code, the message and the field violations of
\* the body, never as a success or another error.
C5_RemoteErrorPropagates ==
    \A c \in Calls :
        (Answered(c) /\ IsRemoteError(frame[c].response)) =>
            /\ frame[c].signature_bytes.kind = "Err"
            /\ Done(c)
            /\ outcome[c].kind = "Err"
            /\ outcome[c].error = frame[c].signature_bytes.error
            /\ outcome[c].error.variant = "MethodError"
            /\ outcome[c].error.method.code = frame[c].response.body.error.code
            /\ outcome[c].error.method.message = frame[c].response.body.error.message
            /\ outcome[c].error.method.details = frame[c].response.body.error.details

\* a call has ended on a remote error that names a field violation
C5_Witness ==
    \E c \in Calls :
        /\ Done(c)
        /\ Answered(c)
        /\ IsRemoteError(frame[c].response)
        /\ frame[c].response.status = 400
        /\ Len(frame[c].response.body.error.details) = 1
        /\ outcome[c].error.method.details[1].field_violations[1].field = "parameters.signWith"

\* C6 as stated: every invocation makes exactly one round trip.
C6_ExactlyOneRoundTrip ==
    \A c \in Calls : Done(c) => (Len(wire[c]) = 1 /\ Len(inbox[c]) = 1)

\* stamping has given call c a stamp
Stamped(c) == frame[c].x_stamp.kind = "Ok"

\* C6, amended: an invocation never sends a second request and never takes a
\* second answer; it makes exactly one round trip when stamping succeeds and
\* none when stamping fails; a failure ends the call, which is not resumed.
C6_AtMostOneRoundTrip ==
    \A c \in Calls :
        /\ Len(wire[c]) <= 1
        /\ Len(inbox[c]) <= Len(wire[c])
        /\ (Done(c) /\ Stamped(c)) => (Len(wire[c]) = 1 /\ Len(inbox[c]) = 1)
        /\ (Done(c) /\ ~Stamped(c)) => Len(wire[c]) = 0
        /\ outcome[c].kind \in {"Err", "Panic"} => Done(c)

\* a call has ended on a transport failure after its one request
C6_Witness ==
    \E c \in Calls :
        /\ Done(c)
        /\ Len(wire[c]) = 1
        /\ outcome[c].kind = "Err"
        /\ outcome[c].error = HttpError("error sending request")

\* the bytes two hex digits per byte stand for
HexDecoding(text) ==
    [k \in 1..(Len(text) \div 2) |-> 16 * to_digit(text[2 * k - 1]) + to_digit(text[2 * k])]

\* C8: with the signing sub-result there, the bytes sign_bytes returns are the
\* bytes r stands for followed by the bytes s stands for (64 bytes for two
\* 32-byte scalars): it returns them whenever r and s are hex texts, and it
\* returns nothing else.
C8_BytesOfRThenS ==
    \A c \in Calls :
        (Answered(c) /\ IsActivityAnswer(frame[c].response) /\ HasSigningResult(frame[c].response)) =>
            LET r == frame[c].response.body.activity.result.sign_raw_payload_result.r
                s == frame[c].response.body.activity.result.sign_raw_payload_result.s
                signature_bytes == frame[c].signature_bytes
            IN  /\ (IsHexText(r) /\ IsHexText(s)) =>
                      /\ signature_bytes.kind = "Ok"
                      /\ signature_bytes.value = HexDecoding(r) \o HexDecoding(s)
                /\ signature_bytes.kind = "Ok" =>
                      /\ IsHexText(r) /\ IsHexText(s)
                      /\ signature_bytes.value = HexDecoding(r) \o HexDecoding(s)

(***************************************************************************)
(* Properties of stamping and of calls in flight together.                 *)
(***************************************************************************)
\* the body a stamp was made over
StampedOver(x_stamp) == x_stamp.base64url.json.signature.der_hex_of.over

\* C9: every request on the wire carries the one stamp its call has produced,
\* made over exactly the body the request carries, which is the body the call
\* built; a call sends one request per stamp, and requests with different bodies
\* never carry the same stamp.
C9_OneStampPerRequest ==
    \A c \in Calls :
        /\ \A i \in 1..Len(wire[c]) :
             /\ wire[c][i].headers.XStamp = frame[c].x_stamp.value
             /\ StampedOver(wire[c][i].headers.XStamp) = wire[c][i].body
             /\ wire[c][i].body = frame[c].body
        /\ Len(wire[c]) >= 1 => stamps[c] = Len(wire[c])
        /\ Len(wire[c]) <= 1
        /\ \A d \in Calls : \A i \in 1..Len(wire[c]), j \in 1..Len(wire[d]) :
             wire[c][i].headers.XStamp = wire[d][j].headers.XStamp
                 => wire[c][i].body = wire[d][j].body

\* two calls have each sent a request, with different bodies and different stamps
C9_Witness ==
    \E c, d \in Calls :
        /\ Len(wire[c]) = 1
        /\ Len(wire[d]) = 1
        /\ wire[c][1].body # wire[d][1].body
        /\ wire[c][1].headers.XStamp # wire[d][1].headers.XStamp
        /\ stamps[c] = 1
        /\ stamps[d] = 1

\* sign_transaction run from its first statement to its last with nothing else
\* going on: on `tx`, at time `now`, with `response` the answer to its request
SignTransactionAlone(turnkey, tx, now, response) ==
    LET key_info == select_key(turnkey, "ExampleKey")
        serialized_message == message_data(tx)
        body == RequestBody(turnkey, serialized_message, key_info.private_key_id, now)
        x_stamp == stamp(turnkey, body)
    IN  IF x_stamp.kind # "Ok" THEN [transaction |-> tx, result |-> x_stamp]
        ELSE LET signature_bytes == SignBytesResult(response)
             IN  IF signature_bytes.kind # "Ok"
                 THEN [transaction |-> tx, result |-> signature_bytes]
                 ELSE FinishSignTransaction(tx, key_info, signature_bytes.value)

\* the signature an honest service returns for the message of a transaction
SignatureFor(tx) ==
    LET request == PostRequest(RequestBody(client, message_data(tx),
                                           client.example_key_info.private_key_id, ""), None)
    IN  HexDecoding(RemoteScalars(request)[1] \o RemoteScalars(request)[2])

\* every finished call has the result and the transaction it would have had
\* alone, given the answer to its own request, and a signed transaction holds
\* the signature made for its own message
EachCallAsIfAlone ==
    \A c \in Calls :
        Done(c) =>
            LET alone == SignTransactionAlone(client, entry[c], frame[c].body.json.timestampMs,
                                              IF Len(inbox[c]) = 0 THEN None ELSE inbox[c][1])
            IN  /\ outcome[c] = alone.result
                /\ transaction[c] = alone.transaction
                /\ Succeeded(c) =>
                     /\ outcome[c].value.signature = SignatureFor(entry[c])
                     /\ \E i \in 1..Len(transaction[c].signatures) :
                          transaction[c].signatures[i] = SignatureFor(entry[c])
                     /\ \A d \in Calls, i \in 1..Len(transaction[c].signatures) :
                          (entry[d] # NoTransaction /\ SignatureFor(entry[d]) # SignatureFor(entry[c]))
                              => transaction[c].signatures[i] # SignatureFor(entry[d])

\* C10: however the steps of several sign_transaction calls on one client
\* interleave, no step changes the client's configuration, and every call ends
\* with the result and the transaction it would have had alone: a transaction
\* only receives the signature returned for its own request.
C10_CallsDoNotInterfere ==
    /\ []EachCallAsIfAlone
    /\ [][client' = client]_vars

\* two calls on different transactions have both succeeded, each with its own
\* signature
C10_Witness ==
    \E c, d \in Calls :
        /\ Succeeded(c)
        /\ Succeeded(d)
        /\ entry[c] # entry[d]
        /\ outcome[c].value.signature # outcome[d].value.signature

(***************************************************************************)
(* The order of the remote request and the signer lookup.                  *)
(***************************************************************************)
\* call c has ended with the unknown-signer failure
EndedUnknownSigner(c) ==
    /\ Done(c)
    /\ outcome[c].kind = "Err"
    /\ outcome[c].error = UnknownSignerError

\* call c has made one round trip for the message of its transaction, and the
\* answer gave sign_bytes the 64 bytes of a signature
SignedRemotely(c) ==
    /\ Len(wire[c]) = 1
    /\ Len(inbox[c]) = 1
    /\ wire[c][1].body.json.parameters.payload = bytes_to_hex(message_data(entry[c]))
    /\ wire[c][1].body.json.parameters.signWith = client.example_key_info.private_key_id
    /\ frame[c].response = inbox[c][1]
    /\ IsActivityAnswer(inbox[c][1])
    /\ HasSigningResult(inbox[c][1])
    /\ GotSignature(c)

\* C11: the remote signing request comes before the signer lookup: a call that
\* ends with the unknown-signer failure has completed one successful remote
\* signing round trip for its transaction's message, and no call is decided by
\* the signer's slot before the service is contacted (a call that ends without
\* a request ends on the failure of stamping, whether the signer has a slot or
\* not, and a call past stamping sends its request whether it has one or not).
C11_RemoteBeforeLookup ==
    \A c \in Calls :
        /\ EndedUnknownSigner(c) => SignedRemotely(c)
        /\ (Done(c) /\ Len(wire[c]) = 0) =>
              /\ ~Stamped(c)
              /\ stamps[c] = 1
              /\ outcome[c] = stamp(client, frame[c].body)
        /\ pc[c] \in {"await", "inject"} => Len(wire[c]) = 1

\* a call on a transaction without the signer's key has ended with the
\* unknown-signer failure, after the service signed its message
C11_Witness ==
    \E c \in Calls :
        /\ EndedUnknownSigner(c)
        /\ FirstIndexOf(entry[c].account_keys, SignerKey) = {}
        /\ Len(entry[c].account_keys) > 0
        /\ inbox[c][1] = Delivered(200, HonestBody(wire[c][1]))
        /\ transaction[c] = entry[c]
====
